---- MODULE Spec2Model ----
(***************************************************************************)
(* Model of the route session of the Margsathi routing page                *)
(* (Margsathi/frontend/src/pages/Routing.jsx): the React state of the      *)
(* Routing component, its five effects, the timers they arm, the requests  *)
(* in flight and the closures these timers and requests captured.          *)
(*                                                                         *)
(* A render of the component is a snapshot of its state.  A timer callback *)
(* or an awaited continuation runs with the snapshot of the render that    *)
(* created it, so every armed timer and every request in flight carries    *)
(* the snapshot (Closure) it was created with.                             *)
(***************************************************************************)
EXTENDS Integers, Sequences, FiniteSets, TLC

----------------------------------------------------------------------------
(* Bounds of the model *)

\* requests that may be outstanding at the same time
MaxInflight == 2
\* route variants the planning service may answer with (RouteVariant)
NumRoutes == 3
\* reset timers of the change flags that may be pending at the same time
MaxFlagTimers == 4
\* requests issued in one run
MaxRequests == 2
\* edits counted in one debounce window
MaxWindowEdits == 3
\* route variants the service may answer with where the map is modelled
NumVariants == 6
\* polylines the map may have drawn in one run
MaxPolylines == 8

----------------------------------------------------------------------------
(* The delays of the timers, in milliseconds, and in ticks of the clock *)

DebounceMs == 2500
PollMs == 12000
SimulationMs == 10000
FlagMs == 3000

\* the delays of the timers of the map: fading and removal of the old route
\* (without and with an active event), and the end of the reroute colour
FadeMs == 100
EventFadeMs == 0
RemoveMs == 1500
EventRemoveMs == 50
ColorMs == 2000

RECURSIVE Gcd(_, _)
Gcd(a, b) == IF b = 0 THEN a ELSE Gcd(b, a % b)

\* one tick of the clock: the longest unit all four delays are multiples of
TickMs == Gcd(Gcd(DebounceMs, FlagMs), Gcd(SimulationMs, PollMs))

Ticks(ms) == ms \div TickMs

----------------------------------------------------------------------------
(* Values *)

\* JavaScript null / undefined for object-valued state
Null == [null |-> TRUE]

\* texts the user may type into the two inputs ('' is the empty input)
Sources == {"", "A", "B"}
Destinations == {"X"}

\* eventTypes: the values of the event select the model lets the user pick
eventTypes == {"", "Accident"}

\* mockEvents / mockEventTypes: the names a poll tick or the simulation draws
mockEventTypes == {"Rally"}

\* err.response?.data?.detail of a failed request ("" when absent)
ErrorDetails == {"", "No route found"}

\* the detailed geometry of a route: a sequence of points, <<>> when absent
DetailedPoints(k, n) == [i \in 1..n |-> 100 * k + i]

\* the route the planning service answers with: variant v for the endpoints
\* of the request.  The service is outside the repository, so the variants
\* are the inputs of the model: they differ in geometry, duration, distance.
\* geometry "" and detailed_geometry <<>> stand for an absent field;
\* located says whether the answer carries its end point.
RouteVariant(v) ==
    CASE v = 1 -> [geometry |-> "g1", detailed_geometry |-> <<>>,
                   duration_minutes |-> 10, distance_km |-> 5,
                   located |-> TRUE]
      [] v = 2 -> [geometry |-> "g2", detailed_geometry |-> <<>>,
                   duration_minutes |-> 12, distance_km |-> 5,
                   located |-> TRUE]
      [] v = 3 -> [geometry |-> "g1", detailed_geometry |-> <<>>,
                   duration_minutes |-> 10, distance_km |-> 6,
                   located |-> FALSE]
      [] v = 4 -> [geometry |-> "", detailed_geometry |-> DetailedPoints(1, 11),
                   duration_minutes |-> 10, distance_km |-> 5,
                   located |-> TRUE]
      [] v = 6 -> [geometry |-> "g2", detailed_geometry |-> DetailedPoints(3, 2),
                   duration_minutes |-> 12, distance_km |-> 5,
                   located |-> TRUE]
      [] OTHER -> [geometry |-> "", detailed_geometry |-> DetailedPoints(2, 11),
                   duration_minutes |-> 12, distance_km |-> 6,
                   located |-> TRUE]

\* response.data of a successful request with this payload: the service
\* names the start and end point as the request did
ResponseData(payload, v) ==
    [start_point |-> [display |-> payload.source],
     end_point |-> IF RouteVariant(v).located
                   THEN [display |-> payload.destination] ELSE Null,
     geometry |-> RouteVariant(v).geometry,
     detailed_geometry |-> RouteVariant(v).detailed_geometry,
     duration_minutes |-> RouteVariant(v).duration_minutes,
     distance_km |-> RouteVariant(v).distance_km,
     provider_used |-> "osrm"]

----------------------------------------------------------------------------
(* decodePolyline (components/MapComponent.jsx), the decoder of the encoded *)
(* geometry.  A string is the sequence of its code units; a 32-bit integer  *)
(* of the bit operations is the function from its bit positions to 0 or 1.  *)

\* longest encoded string the model enumerates
MaxEncodedLen == 4

\* the characters the enumerated strings are built from.  A string is the
\* sequence of its UTF-16 code units: 32 (space) lies below the bias, 63 (?)
\* and 64 (@) end a value, 95 (_) and 96 (grave accent) announce a further
\* character
Alphabet == {32, 63, 64, 95, 96}

\* the standard sample string of the encoding, _p~iF~ps|U_ulLnnqC_mqNvxq
\* followed by a grave accent and @
SampleString ==
    <<95, 112, 126, 105, 70, 126, 112, 115, 124, 85, 95, 117, 108, 76,
      110, 110, 113, 67, 95, 109, 113, 78, 118, 120, 113, 96, 64>>

\* a JavaScript number that may be NaN
NaN == [nan |-> TRUE, val |-> 0]
Number(n) == [nan |-> FALSE, val |-> n]

\* encoded.charCodeAt(index): NaN beyond the end of the string
charCodeAt(encoded, index) ==
    IF index < Len(encoded) THEN Number(encoded[index + 1]) ELSE NaN

\* the bit positions of a 32-bit integer, and the integer 0
BitPositions == 0..31
ZeroBits == [i \in BitPositions |-> 0]

\* the 32-bit integer b & 0x1f (NaN converts to 0; a negative b is taken
\* in two-complement form, whose low five bits are b modulo 32)
LowFiveBits(b) ==
    LET n == IF b.nan THEN 0 ELSE b.val % 32
    IN  [i \in BitPositions |-> IF i < 5 THEN (n \div (2 ^ i)) % 2 ELSE 0]

\* w << shift: the shift count is taken modulo 32, the high bits are lost
ShiftLeft(w, shift) ==
    [i \in BitPositions |-> IF i >= shift % 32 THEN w[i - (shift % 32)] ELSE 0]

\* a | b
BitOr(a, b) == [i \in BitPositions |-> IF a[i] + b[i] > 0 THEN 1 ELSE 0]

\* the value of the bits 0..i of w
RECURSIVE LowValue(_, _)
LowValue(w, i) == IF i < 0 THEN 0 ELSE w[i] * (2 ^ i) + LowValue(w, i - 1)

\* the signed value of a 32-bit integer
ToInt32(w) ==
    IF w[31] = 1 THEN (LowValue(w, 30) - 2 ^ 30) - 2 ^ 30 ELSE LowValue(w, 30)

\* the zig-zag decoding without its sign bit
ZigZagUnsigned(result) ==
    ToInt32(result) \div 2

\* (result & 1) ? ~(result >> 1) : (result >> 1)
ZigZag(result) ==
    IF result[0] = 1 THEN -(ToInt32(result) \div 2) - 1
    ELSE ToInt32(result) \div 2

\* lat / factor: the quotient, kept as numerator and denominator
Quotient(n, factor) == [num |-> n, den |-> factor]

\* the locals of a call decodePolyline(encoded, precision) before its first
\* statement
Call(encoded, precision) ==
    [pc |-> "call", encoded |-> encoded, precision |-> precision,
     points |-> <<>>, index |-> 0, lat |-> 0, lng |-> 0,
     b |-> NaN, shift |-> 0, result |-> ZeroBits]

\* no call is in progress
NoCall == [pc |-> "none"]

\* one pass of the body of a do-while that waits at the end of the string
\* for a further character
ReadCharacterWaiting(d) ==
    LET b == IF charCodeAt(d.encoded, d.index).nan THEN NaN
             ELSE Number(charCodeAt(d.encoded, d.index).val - 63)
    IN  IF b.nan THEN d
        ELSE [d EXCEPT !.b = b,
                       !.index = @ + 1,
                       !.result = BitOr(@, ShiftLeft(LowFiveBits(b), d.shift)),
                       !.shift = @ + 5]

\* one pass of the body of a do-while:
\*   b = encoded.charCodeAt(index++) - 63;
\*   result |= (b & 0x1f) << shift; shift += 5
ReadCharacter(d) ==
    LET b == IF charCodeAt(d.encoded, d.index).nan THEN NaN
             ELSE Number(charCodeAt(d.encoded, d.index).val - 63)
    IN  [d EXCEPT !.b = b,
                  !.index = @ + 1,
                  !.result = BitOr(@, ShiftLeft(LowFiveBits(b), d.shift)),
                  !.shift = @ + 5]

\* while (b >= 0x20): false for NaN
Continues(d) == ~d.b.nan /\ d.b.val >= 32

\* one step of the call: its entry, the test of the while loop, or one pass
\* of a do-while with what follows when that loop ends
DecodeStep(d) ==
    CASE d.pc = "call" ->
           IF d.encoded = <<>> THEN [d EXCEPT !.pc = "return"]
           ELSE [d EXCEPT !.pc = "while"]
      [] d.pc = "while" ->
           IF d.index < Len(d.encoded)
           THEN [d EXCEPT !.pc = "dlat", !.shift = 0, !.result = ZeroBits]
           ELSE [d EXCEPT !.pc = "return"]
      [] d.pc = "dlat" ->
           LET r == ReadCharacter(d)
           IN  IF Continues(r) THEN r
               ELSE [r EXCEPT !.lat = @ + ZigZag(r.result),
                              !.shift = 0, !.result = ZeroBits,
                              !.pc = "dlng"]
      [] d.pc = "dlng" ->
           LET r == ReadCharacter(d)
               lng == r.lng + ZigZag(r.result)
               factor == 10 ^ r.precision
           IN  IF Continues(r) THEN r
               ELSE [r EXCEPT !.lng = lng,
                              !.points = Append(@, <<Quotient(r.lat, factor),
                                                     Quotient(lng, factor)>>),
                              !.pc = "while"]
      [] OTHER -> d

----------------------------------------------------------------------------
(* State *)

VARIABLES
    source, destination, event, loading, result, error, isLiveEnabled,
    simulatedEvent, showNotification, previousResult, isRerouting,
    etaChanged, distanceChanged, hasSimulatedThisSession,
    debounceTimer,   \* Null, or the armed debounce timer
    simTimer,        \* Null, or the armed simulation timer
    pollInterval,    \* Null, or the armed poll interval
    flagTimers,      \* the pending reset timers of the flags, oldest first
    inflight,        \* the requests awaiting their response, in issue order
    issued,          \* history: the number of requests issued so far
    timed,           \* whether the clock runs (SpecTimed) or not (Spec)
    sinceEdit,       \* history: ticks since the last edit, up to DebounceMs
    windowEdits,     \* history: edits less than DebounceMs apart, so far
    decoder,         \* the call of decodePolyline in progress, or NoCall
    map              \* the refs, layers and timers of MapComponent, or NoMap

vars == <<source, destination, event, loading, result, error, isLiveEnabled,
          simulatedEvent, showNotification, previousResult, isRerouting,
          etaChanged, distanceChanged, hasSimulatedThisSession,
          debounceTimer, simTimer, pollInterval, flagTimers, inflight,
          issued, timed, sinceEdit, windowEdits, decoder, map>>

Flags == {"eta", "distance", "rerouting"}

\* the whole state as one record, so that a handler is a function on it
World ==
    [source |-> source, destination |-> destination, event |-> event,
     loading |-> loading, result |-> result, error |-> error,
     isLiveEnabled |-> isLiveEnabled, simulatedEvent |-> simulatedEvent,
     showNotification |-> showNotification,
     previousResult |-> previousResult, isRerouting |-> isRerouting,
     etaChanged |-> etaChanged, distanceChanged |-> distanceChanged,
     hasSimulatedThisSession |-> hasSimulatedThisSession,
     debounceTimer |-> debounceTimer, simTimer |-> simTimer,
     pollInterval |-> pollInterval, flagTimers |-> flagTimers,
     inflight |-> inflight, issued |-> issued, map |-> map]

Commit(w) ==
    /\ source' = w.source
    /\ destination' = w.destination
    /\ event' = w.event
    /\ loading' = w.loading
    /\ result' = w.result
    /\ error' = w.error
    /\ isLiveEnabled' = w.isLiveEnabled
    /\ simulatedEvent' = w.simulatedEvent
    /\ showNotification' = w.showNotification
    /\ previousResult' = w.previousResult
    /\ isRerouting' = w.isRerouting
    /\ etaChanged' = w.etaChanged
    /\ distanceChanged' = w.distanceChanged
    /\ hasSimulatedThisSession' = w.hasSimulatedThisSession
    /\ debounceTimer' = w.debounceTimer
    /\ simTimer' = w.simTimer
    /\ pollInterval' = w.pollInterval
    /\ flagTimers' = w.flagTimers
    /\ inflight' = w.inflight
    /\ issued' = w.issued
    /\ map' = w.map

\* the part of the state a render sees (the useState values)
ReactState(w) ==
    <<w.source, w.destination, w.event, w.loading, w.result, w.error,
      w.isLiveEnabled, w.simulatedEvent, w.showNotification,
      w.previousResult, w.isRerouting, w.etaChanged, w.distanceChanged,
      w.hasSimulatedThisSession>>

\* what the functions created by one render (handleSubmit, the timer
\* callbacks) read from that render
Closure(w) ==
    [source |-> w.source, destination |-> w.destination, event |-> w.event,
     simulatedEvent |-> w.simulatedEvent, result |-> w.result,
     previousResult |-> w.previousResult]

\* setTimeout / setInterval: a timer is the closure c of its callback and
\* the ticks that remain until it is due
Timer(c, ms) == [c |-> c, rem |-> Ticks(ms)]

----------------------------------------------------------------------------
(* handleSubmit *)

\* Payload that relies on the simulatedEvent of the state only and ignores
\* the event passed as second argument
PayloadFromState(c, eventLocation) ==
    LET effectiveEvent == c.simulatedEvent
    IN  [source |-> c.source,
         destination |-> c.destination,
         event |-> IF effectiveEvent # Null
                   THEN (IF effectiveEvent.event_name # ""
                         THEN effectiveEvent.event_name ELSE "Accident")
                   ELSE c.event,
         mode |-> "car",
         provider |-> IF c.result # Null THEN c.result.provider_used ELSE "",
         event_severity |-> IF effectiveEvent # Null
                            THEN effectiveEvent.severity ELSE "LOW",
         event_location |-> IF effectiveEvent # Null
                            THEN [lat |-> effectiveEvent.lat,
                                  lon |-> effectiveEvent.lon]
                            ELSE Null]

\* payload of handleSubmit, built from the closure c of the render that
\* created this handleSubmit and from the event passed as second argument
Payload(c, eventLocation) ==
    LET effectiveEvent ==
            IF eventLocation # Null THEN eventLocation ELSE c.simulatedEvent
    IN  [source |-> c.source,
         destination |-> c.destination,
         event |-> IF effectiveEvent # Null
                   THEN (IF effectiveEvent.event_name # ""
                         THEN effectiveEvent.event_name ELSE "Accident")
                   ELSE c.event,
         mode |-> "car",
         provider |-> IF c.result # Null THEN c.result.provider_used ELSE "",
         event_severity |-> IF effectiveEvent # Null
                            THEN effectiveEvent.severity ELSE "LOW",
         event_location |-> IF effectiveEvent # Null
                            THEN [lat |-> effectiveEvent.lat,
                                  lon |-> effectiveEvent.lon]
                            ELSE Null]

\* the request handleSubmit leaves awaiting its response: the payload sent,
\* the previousResult its continuation will read (that of its closure), and
\* two history fields: the trigger that issued it and its number in issue
\* order (the code stamps no token on a request)
Request(c, eventLocation, trigger, token) ==
    [payload |-> Payload(c, eventLocation),
     previousResult |-> c.previousResult,
     trigger |-> trigger,
     token |-> token]

\* HandleSubmit that also drops the displayed result
HandleSubmitClearsResult(w, c, eventLocation, trigger) ==
    [w EXCEPT !.loading = TRUE,
              !.error = "",
              !.result = Null,
              !.issued = @ + 1,
              !.inflight = Append(w.inflight,
                                  Request(c, eventLocation, trigger,
                                          w.issued + 1))]

\* handleSubmit up to its await: setLoading(true), setError(null), the post
HandleSubmit(w, c, eventLocation, trigger) ==
    [w EXCEPT !.loading = TRUE,
              !.error = "",
              !.issued = @ + 1,
              !.inflight = Append(w.inflight,
                                  Request(c, eventLocation, trigger,
                                          w.issued + 1))]

----------------------------------------------------------------------------
(* MapComponent (components/MapComponent.jsx): the effect that draws the    *)
(* route.  A polyline stands for the pair of the main line and its glow,    *)
(* which the effect creates, keeps and removes together.  The session       *)
(* specifications leave the map out (NoMap): it has no way to act on the    *)
(* session.                                                                 *)

RemoveAt(seq, i) ==
    [j \in 1..(Len(seq) - 1) |-> IF j < i THEN seq[j] ELSE seq[j + 1]]

NoMap == [mounted |-> FALSE]

\* a string of the map, as opposed to JSON.stringify of an array
String(text) == [text |-> text, array |-> <<>>]
JSONstringify(array) == [text |-> "", array |-> array]

\* geometry || (detailedGeometry && detailedGeometry.length > 0
\*                ? JSON.stringify(detailedGeometry) : null)
CurrentGeometry(res) ==
    IF res = Null THEN Null
    ELSE IF res.geometry # "" THEN String(res.geometry)
    ELSE IF res.detailed_geometry # <<>>
         THEN JSONstringify(res.detailed_geometry)
    ELSE Null

\* the route to draw is not empty: the detailed geometry, or the decoded
\* compact one (decodePolyline returns a point for every non-empty string)
HasRoute(res) ==
    res # Null /\ (res.detailed_geometry # <<>> \/ res.geometry # "")

\* setTimeout of the map: what the callback does, the isEventActive of its
\* closure, and its delay
MapTimer(kind, isEventActive, ms) ==
    [kind |-> kind, isEventActive |-> isEventActive, ms |-> ms]

\* layers without the polyline id (id 0 is the null ref)
RemoveLayer(layers, id) == {l \in layers : l.id # id}

\* polyline.setStyle
SetStyle(layers, id, look) ==
    {IF l.id = id THEN [l EXCEPT !.look = look] ELSE l : l \in layers}

\* the body of the route effect for the props of the render of w
DrawRoute(m, w) ==
    LET isEventActive == w.simulatedEvent # Null
        currentGeometry == CurrentGeometry(w.result)
        \* isRerouting of the effect
        rerouting == /\ m.previousGeometryRef # Null
                     /\ currentGeometry # Null
                     /\ m.previousGeometryRef # currentGeometry
        \* the branch on isRerouting
        m1 == IF rerouting
              THEN IF m.polylineRef # 0
                   THEN [m EXCEPT
                           !.isReroutingRef = TRUE,
                           !.transitions = @ + 1,
                           !.oldPolylineRef = m.polylineRef,
                           !.timers = @ \o
                              <<MapTimer("fade", isEventActive,
                                         IF isEventActive THEN EventFadeMs
                                         ELSE FadeMs),
                                MapTimer("remove", isEventActive,
                                         IF isEventActive THEN EventRemoveMs
                                         ELSE RemoveMs)>>]
                   ELSE [m EXCEPT !.isReroutingRef = TRUE,
                                  !.transitions = @ + 1]
              ELSE [m EXCEPT !.layers = RemoveLayer(@, m.polylineRef),
                             !.polylineRef = 0]
        isReroutingNow == m1.isReroutingRef
        look == IF isReroutingNow THEN "reroute"
                ELSE IF isEventActive /\ w.loading THEN "event"
                ELSE "normal"
        \* the new polyline
        m2 == IF HasRoute(w.result)
              THEN [m1 EXCEPT
                      !.created = @ + 1,
                      !.polylineRef = m1.created + 1,
                      !.layers = @ \cup {[id |-> m1.created + 1,
                                          look |-> look]},
                      !.timers = IF isReroutingNow
                                 THEN Append(@, MapTimer("color",
                                                         isEventActive,
                                                         ColorMs))
                                 ELSE @]
              ELSE m1
    IN  [m2 EXCEPT !.previousGeometryRef = currentGeometry]

\* the route effect: it runs when one of startPoint, endPoint, geometry,
\* detailedGeometry, simulatedEvent, isCalculating changed
MapEffect(old, w, fresh) ==
    IF ~w.map.mounted THEN w.map
    ELSE IF \/ "result" \in fresh \/ w.result # old.result
            \/ "simulatedEvent" \in fresh
            \/ w.simulatedEvent # old.simulatedEvent
            \/ w.loading # old.loading
         THEN DrawRoute(w.map, w)
         ELSE w.map

\* the callback of a timer of the map
MapTimerCallback(m, k) ==
    LET t == m.timers[k]
        m1 == [m EXCEPT !.timers = RemoveAt(@, k)]
    IN  CASE t.kind = "fade" ->
               [m1 EXCEPT !.layers = SetStyle(@, m.oldPolylineRef, "faded")]
          [] t.kind = "remove" ->
               [m1 EXCEPT !.layers = RemoveLayer(@, m.oldPolylineRef),
                          !.oldPolylineRef = 0]
          [] OTHER ->
               [m1 EXCEPT !.layers = SetStyle(@, m.polylineRef,
                                              IF t.isEventActive
                                              THEN "event" ELSE "normal"),
                          !.isReroutingRef = FALSE]

----------------------------------------------------------------------------
(* The effects.  RunEffects(old, w, fresh) is what the effects of the render *)
(* of w do when the previous render was old: an effect runs when one of its  *)
(* dependencies changed; fresh names the object-valued states that were set  *)
(* to a new object (a dependency changes with the object's identity).        *)

EndpointsChanged(old, w) ==
    w.source # old.source \/ w.destination # old.destination

\* DebounceEffect without the clearTimeout of its cleanup: an armed timer is
\* left running and no second one is armed
DebounceEffectNoCleanup(old, w) ==
    IF EndpointsChanged(old, w) /\ w.debounceTimer = Null
    THEN [w EXCEPT !.debounceTimer =
              IF w.source = "" \/ w.destination = "" THEN Null
              ELSE Timer(Closure(w), DebounceMs)]
    ELSE w

\* Auto-recalculate on source/destination change (Debounced): the timer part
DebounceEffect(old, w) ==
    IF EndpointsChanged(old, w)
    THEN [w EXCEPT !.debounceTimer =
              IF w.source = "" \/ w.destination = "" THEN Null
              ELSE Timer(Closure(w), DebounceMs)]
    ELSE w

\* ... and its state updates: the reset of the simulation on new inputs
DebounceEffectUpdates(old, w, q) ==
    IF EndpointsChanged(old, w) /\ w.source # "" /\ w.destination # ""
    THEN [q EXCEPT !.simulatedEvent = Null, !.event = "",
                   !.showNotification = FALSE]
    ELSE q

\* PollEffect without the clearInterval of its cleanup
PollEffectNoCleanup(old, w) ==
    IF w.isLiveEnabled # old.isLiveEnabled
         \/ (w.result # Null) # (old.result # Null)
    THEN [w EXCEPT !.pollInterval =
              IF w.isLiveEnabled /\ w.result # Null
              THEN Timer(Null, PollMs) ELSE @]
    ELSE w

\* Polling Simulation for Traffic/Events: arming of the interval
PollEffect(old, w) ==
    IF w.isLiveEnabled # old.isLiveEnabled
         \/ (w.result # Null) # (old.result # Null)
    THEN [w EXCEPT !.pollInterval =
              IF w.isLiveEnabled /\ w.result # Null
              THEN Timer(Null, PollMs) ELSE Null]
    ELSE w

\* Reset simulation flag when source/destination changes
ResetSimulationFlagEffect(old, w, q) ==
    IF EndpointsChanged(old, w)
    THEN [q EXCEPT !.hasSimulatedThisSession = FALSE]
    ELSE q

\* SimulationEffect without the test of hasSimulatedThisSession
SimulationEffectNoFlag(old, w, fresh) ==
    IF \/ "result" \in fresh \/ w.result # old.result
       \/ w.event # old.event
       \/ "simulatedEvent" \in fresh \/ w.simulatedEvent # old.simulatedEvent
       \/ w.loading # old.loading
       \/ w.hasSimulatedThisSession # old.hasSimulatedThisSession
    THEN [w EXCEPT !.simTimer =
              IF /\ w.result # Null /\ w.event = "" /\ w.simulatedEvent = Null
                 /\ ~w.loading
              THEN Timer(Closure(w), SimulationMs) ELSE Null]
    ELSE w

\* Event Simulation Logic: arming of the 10 s timer
SimulationEffect(old, w, fresh) ==
    IF \/ "result" \in fresh \/ w.result # old.result
       \/ w.event # old.event
       \/ "simulatedEvent" \in fresh \/ w.simulatedEvent # old.simulatedEvent
       \/ w.loading # old.loading
       \/ w.hasSimulatedThisSession # old.hasSimulatedThisSession
    THEN [w EXCEPT !.simTimer =
              IF /\ w.result # Null /\ w.event = "" /\ w.simulatedEvent = Null
                 /\ ~w.loading /\ ~w.hasSimulatedThisSession
              THEN Timer(Closure(w), SimulationMs) ELSE Null]
    ELSE w

\* EventEffect without the test of simulatedEvent
EventEffectAlsoSimulated(old, w, q) ==
    IF w.event # old.event
         /\ w.event # "" /\ w.result # Null
    THEN HandleSubmit(q, Closure(w), Null, "event")
    ELSE q

\* Trigger recalculate when event changes
EventEffect(old, w, q) ==
    IF w.event # old.event
         /\ w.event # "" /\ w.result # Null /\ w.simulatedEvent = Null
    THEN HandleSubmit(q, Closure(w), Null, "event")
    ELSE q

\* the effects of the child, MapComponent, run before those of Routing
RunEffects(old, w, fresh) ==
    LET c == [w EXCEPT !.map = MapEffect(old, w, fresh)]
        t == SimulationEffect(old, PollEffect(old, DebounceEffect(old, c)), fresh)
    IN  EventEffect(old, w,
          ResetSimulationFlagEffect(old, w,
            DebounceEffectUpdates(old, w, t)))

\* a state update, the render it causes and the effects of that render, up
\* to the render whose effects change no state
RECURSIVE Render(_, _, _)
Render(old, w, fresh) ==
    LET n == RunEffects(old, w, fresh)
    IN  IF ReactState(n) = ReactState(w) THEN n ELSE Render(w, n, {})

----------------------------------------------------------------------------
(* Initial state: the useState defaults; the effects of the first render do  *)
(* nothing (empty inputs, no result, no event)                               *)

Session ==
    /\ source = ""
    /\ destination = ""
    /\ event = ""
    /\ loading = FALSE
    /\ result = Null
    /\ error = ""
    /\ isLiveEnabled = FALSE
    /\ simulatedEvent = Null
    /\ showNotification = FALSE
    /\ previousResult = Null
    /\ isRerouting = FALSE
    /\ etaChanged = FALSE
    /\ distanceChanged = FALSE
    /\ hasSimulatedThisSession = FALSE
    /\ debounceTimer = Null
    /\ simTimer = Null
    /\ pollInterval = Null
    /\ flagTimers = <<>>
    /\ inflight = <<>>
    /\ issued = 0
    /\ sinceEdit = Ticks(DebounceMs)
    /\ windowEdits = 0

Init == Session /\ timed = FALSE /\ decoder = NoCall /\ map = NoMap

InitTimed == Session /\ timed = TRUE /\ decoder = NoCall /\ map = NoMap

\* the history of the edits: an edit less than DebounceMs after the previous
\* one continues the window of edits, a later one starts a new window
EditHistory(n) ==
    /\ timed' = timed
    /\ IF timed /\ (n.source # source \/ n.destination # destination)
       THEN /\ sinceEdit' = 0
            /\ windowEdits' =
                  IF sinceEdit < Ticks(DebounceMs)
                  THEN (IF windowEdits < MaxWindowEdits
                        THEN windowEdits + 1 ELSE windowEdits)
                  ELSE 1
       ELSE UNCHANGED <<sinceEdit, windowEdits>>

\* the state after a handler: its updates u, rendered, within the bounds
Update(u, fresh) ==
    LET n == Render(World, u, fresh)
    IN  /\ Len(n.inflight) <= MaxInflight
        /\ n.issued <= MaxRequests
        /\ Len(n.flagTimers) <= MaxFlagTimers
        /\ n.map.mounted => n.map.created <= MaxPolylines
        /\ Commit(n)
        /\ EditHistory(n)
        /\ UNCHANGED decoder

----------------------------------------------------------------------------
(* The user *)

\* onChange of the source input
SetSource(v) ==
    /\ v # source
    /\ Update([World EXCEPT !.source = v], {})

\* onChange of the destination input
SetDestination(v) ==
    /\ v # destination
    /\ Update([World EXCEPT !.destination = v], {})

\* onChange of the event select
SetEvent(v) ==
    /\ v # event
    /\ Update([World EXCEPT !.event = v], {})

\* onSubmit of the form: the button is disabled while loading and both
\* inputs are required
Submit ==
    /\ ~loading
    /\ source # "" /\ destination # ""
    /\ Update(HandleSubmit(World, Closure(World), Null, "submit"), {})

\* the Live Monitoring checkbox
ToggleLive ==
    /\ isLiveEnabled \in BOOLEAN
    /\ Update([World EXCEPT !.isLiveEnabled = ~isLiveEnabled], {})

\* the X button of the notification banner
DismissNotification ==
    /\ showNotification
    /\ Update([World EXCEPT !.showNotification = FALSE], {})

----------------------------------------------------------------------------
(* The planning service answers *)

\* "Detect rerouting": the comparison made by the continuation of request r
RerouteDetected(r, data) ==
    r.previousResult # Null /\ r.previousResult.geometry # data.geometry

ArmFlagTimer(timers, f) == Append(timers, [flag |-> f, rem |-> Ticks(FlagMs)])

\* the continuation of handleSubmit after a successful response
ApplyResponse(w, i, data) ==
    LET r == w.inflight[i]
        reroute == RerouteDetected(r, data)
        eta == reroute
               /\ r.previousResult.duration_minutes # data.duration_minutes
        dist == reroute /\ r.previousResult.distance_km # data.distance_km
        t1 == IF eta THEN ArmFlagTimer(w.flagTimers, "eta") ELSE w.flagTimers
        t2 == IF dist THEN ArmFlagTimer(t1, "distance") ELSE t1
        t3 == IF reroute THEN ArmFlagTimer(t2, "rerouting") ELSE t2
    IN  [w EXCEPT !.result = data,
                  !.isRerouting = IF reroute THEN TRUE ELSE @,
                  !.etaChanged = IF eta THEN TRUE ELSE @,
                  !.distanceChanged = IF dist THEN TRUE ELSE @,
                  !.flagTimers = t3,
                  !.previousResult = data,
                  !.loading = FALSE,
                  !.inflight = RemoveAt(@, i)]

ResolveSuccess(i, v) ==
    /\ i \in 1..Len(inflight)
    /\ Update(ApplyResponse(World, i, ResponseData(inflight[i].payload, v)),
              {"result"})

\* ApplyFailure that also drops the displayed result
ApplyFailureClearsResult(w, i, detail) ==
    [w EXCEPT !.error = IF detail # "" THEN detail
                        ELSE "Failed to get route suggestion",
              !.result = Null,
              !.loading = FALSE,
              !.inflight = RemoveAt(@, i)]

\* the catch and finally of handleSubmit
ApplyFailure(w, i, detail) ==
    [w EXCEPT !.error = IF detail # "" THEN detail
                        ELSE "Failed to get route suggestion",
              !.loading = FALSE,
              !.inflight = RemoveAt(@, i)]

ResolveFailure(i, detail) ==
    /\ i \in 1..Len(inflight)
    /\ Update(ApplyFailure(World, i, detail), {})

----------------------------------------------------------------------------
(* The timers *)

\* the callback of the debounce timer, run with the closure c it was armed in
DebounceCallback(w, c) ==
    LET start == IF c.result # Null /\ c.result.start_point # Null
                 THEN c.result.start_point.display ELSE ""
        end == IF c.result # Null /\ c.result.end_point # Null
               THEN c.result.end_point.display ELSE ""
        w1 == [w EXCEPT !.debounceTimer = Null]
    IN  IF c.source # start \/ c.destination # end
        THEN HandleSubmit(w1, c, Null, "debounce")
        ELSE w1

DebounceFire ==
    /\ debounceTimer # Null
    /\ Update(DebounceCallback(World, debounceTimer.c), {})

\* the callback of the k-th pending reset timer
FlagReset(w, k) ==
    LET f == w.flagTimers[k].flag
    IN  [w EXCEPT !.flagTimers = RemoveAt(@, k),
                  !.etaChanged = IF f = "eta" THEN FALSE ELSE @,
                  !.distanceChanged = IF f = "distance" THEN FALSE ELSE @,
                  !.isRerouting = IF f = "rerouting" THEN FALSE ELSE @]

FlagTimerFire(k) ==
    /\ k \in 1..Len(flagTimers)
    /\ Update(FlagReset(World, k), {})

\* a tick of the poll interval: the random trial and the drawn event name;
\* the interval starts its next period
PollCallback(w, trigger, randomEvent) ==
    IF trigger THEN [w EXCEPT !.event = randomEvent] ELSE w

PollTick(trigger, randomEvent) ==
    /\ pollInterval # Null
    /\ Update(PollCallback([World EXCEPT !.pollInterval.rem = Ticks(PollMs)],
                           trigger, randomEvent), {})

\* floor(n * 0.3) and floor(n * 0.7)
MinIdx(n) == (n * 3) \div 10
MaxIdx(n) == (n * 7) \div 10

\* "Pick a location along the route": the locations the callback may pick
\* from the result of its closure (the index is 0-based)
EventLocations(res) ==
    LET n == Len(res.detailed_geometry)
        onRoute == IF n > 10
                   THEN {[lat |-> res.detailed_geometry[k + 1],
                          lon |-> res.detailed_geometry[k + 1]] :
                             k \in {j \in MinIdx(n)..MaxIdx(n) : j < n}}
                   ELSE {}
    IN  IF onRoute # {} THEN onRoute
        ELSE IF res.end_point # Null THEN {[lat |-> -1, lon |-> -1]}
        ELSE {}

\* SimulationCallback that shows the notification before it looks for a
\* location
SimulationCallbackNotifiesFirst(w, c, eventLocation, selectedLabel) ==
    LET w1 == [w EXCEPT !.simTimer = Null, !.hasSimulatedThisSession = TRUE,
                        !.showNotification = TRUE]
        mockEvent == [event_name |-> selectedLabel, severity |-> "HIGH",
                      lat |-> eventLocation.lat, lon |-> eventLocation.lon,
                      affected_radius |-> 500]
    IN  IF eventLocation = Null THEN w1
        ELSE HandleSubmit([w1 EXCEPT !.simulatedEvent = mockEvent,
                                     !.event = selectedLabel],
                          c, mockEvent, "simulation")

\* the callback of the simulation timer, run with the closure c
SimulationCallback(w, c, eventLocation, selectedLabel) ==
    LET w1 == [w EXCEPT !.simTimer = Null, !.hasSimulatedThisSession = TRUE]
        mockEvent == [event_name |-> selectedLabel, severity |-> "HIGH",
                      lat |-> eventLocation.lat, lon |-> eventLocation.lon,
                      affected_radius |-> 500]
    IN  IF eventLocation = Null THEN w1
        ELSE HandleSubmit([w1 EXCEPT !.simulatedEvent = mockEvent,
                                     !.showNotification = TRUE,
                                     !.event = selectedLabel],
                          c, mockEvent, "simulation")

SimulationFire ==
    /\ simTimer # Null
    /\ \E selectedLabel \in mockEventTypes :
       \E eventLocation \in
             IF EventLocations(simTimer.c.result) = {} THEN {Null}
             ELSE EventLocations(simTimer.c.result) :
          Update(SimulationCallback(World, simTimer.c, eventLocation,
                                    selectedLabel),
                 IF eventLocation = Null THEN {} ELSE {"simulatedEvent"})

----------------------------------------------------------------------------

Next ==
    \/ \E v \in Sources : SetSource(v)
    \/ \E v \in Destinations : SetDestination(v)
    \/ \E v \in eventTypes : SetEvent(v)
    \/ Submit
    \/ ToggleLive
    \/ DismissNotification
    \/ \E i \in 1..MaxInflight, v \in 1..NumRoutes : ResolveSuccess(i, v)
    \/ \E i \in 1..MaxInflight, d \in ErrorDetails : ResolveFailure(i, d)
    \/ DebounceFire
    \/ \E k \in 1..MaxFlagTimers : FlagTimerFire(k)
    \/ \E t \in BOOLEAN, n \in mockEventTypes : PollTick(t, n)
    \/ SimulationFire

\* Spec abstracts from the clock: an armed timer may fire at any moment, so
\* every delay between arming and firing, and every order of the timers, is
\* a behaviour of Spec.
Spec == Init /\ [][Next]_vars

----------------------------------------------------------------------------
(* The clock.  SpecTimed lets a timer fire only when it is due, and time    *)
(* advance only when no timer is due.  Its user edits the inputs and        *)
(* submits; live monitoring stays off and the event select untouched.       *)

Due(t) == t # Null /\ t.rem = 0

Elapse(t) == IF t = Null THEN Null ELSE [t EXCEPT !.rem = @ - 1]

Tick ==
    /\ ~Due(debounceTimer) /\ ~Due(simTimer) /\ ~Due(pollInterval)
    /\ \A k \in 1..Len(flagTimers) : flagTimers[k].rem > 0
    /\ debounceTimer' = Elapse(debounceTimer)
    /\ simTimer' = Elapse(simTimer)
    /\ pollInterval' = Elapse(pollInterval)
    /\ flagTimers' = [k \in 1..Len(flagTimers) |-> Elapse(flagTimers[k])]
    /\ UNCHANGED <<source, destination, event, loading, result, error,
                   isLiveEnabled, simulatedEvent, showNotification,
                   previousResult, isRerouting, etaChanged, distanceChanged,
                   hasSimulatedThisSession, inflight, issued, timed,
                   decoder, map>>
    /\ sinceEdit' = IF sinceEdit >= Ticks(DebounceMs)
                    THEN sinceEdit ELSE sinceEdit + 1
    /\ windowEdits' = IF sinceEdit >= Ticks(DebounceMs) THEN 0 ELSE windowEdits

DebounceDue == Due(debounceTimer) /\ DebounceFire

SimulationDue == Due(simTimer) /\ SimulationFire

PollDue(trigger, randomEvent) ==
    Due(pollInterval) /\ PollTick(trigger, randomEvent)

\* timers of the same delay fire in the order they were set
FlagTimerDue ==
    /\ flagTimers # <<>>
    /\ flagTimers[1].rem = 0
    /\ FlagTimerFire(1)

NextTimed ==
    \/ \E v \in Sources : SetSource(v)
    \/ \E v \in Destinations : SetDestination(v)
    \/ Submit
    \/ \E i \in 1..MaxInflight, v \in 1..NumRoutes : ResolveSuccess(i, v)
    \/ \E i \in 1..MaxInflight, d \in ErrorDetails : ResolveFailure(i, d)
    \/ DebounceDue
    \/ FlagTimerDue
    \/ SimulationDue
    \/ Tick

SpecTimed == InitTimed /\ [][NextTimed]_vars

----------------------------------------------------------------------------
(* Properties of the route session *)

\* the step resolves request i successfully with route variant v
Applies(i, v) == i \in 1..Len(inflight) /\ ResolveSuccess(i, v)

\* request i is no longer the most recently issued one
Stale(i) == inflight[i].token # issued

\* the geometry representation of a result: the detailed geometry, or
\* failing that the compact encoded form
GeometryRepresentation(r) ==
    [detailed |-> r.detailed_geometry,
     compact |-> IF r.detailed_geometry # <<>> THEN "" ELSE r.geometry]

NoFlagSet ==
    /\ isRerouting' = isRerouting
    /\ etaChanged' = etaChanged
    /\ distanceChanged' = distanceChanged

\* C1: supersession.  The response of a request that is no longer the most
\* recently issued one is a no-op (current, previous, the change flags, the
\* error text and the loading flag stay as they are), and the response of
\* the most recently issued request becomes the current result.
C1_Supersession ==
    [][\A i \in 1..MaxInflight, v \in 1..NumRoutes :
          Applies(i, v) =>
             IF Stale(i)
             THEN /\ UNCHANGED <<result, previousResult, error, loading>>
                  /\ NoFlagSet
             ELSE result' = ResponseData(inflight[i].payload, v)]_vars

\* C2: the failure of a request that is no longer the most recently issued
\* one is discarded: it sets no error text and changes neither the loading
\* flag nor any other state a render sees.
C2_StaleFailureDiscarded ==
    [][\A i \in 1..MaxInflight, d \in ErrorDetails :
          (i \in 1..Len(inflight) /\ ResolveFailure(i, d) /\ Stale(i))
             => ReactState(World)' = ReactState(World)]_vars

\* C3: right after the application of the response of the most recently
\* issued request, which replaced the displayed result by a different one,
\* previous is the result that was displayed before and current is the new
\* result.
C3_PreviousIsResultBefore ==
    [][\A i \in 1..MaxInflight, v \in 1..NumRoutes :
          (/\ Applies(i, v) /\ ~Stale(i)
           /\ result # Null
           /\ result # ResponseData(inflight[i].payload, v))
             => /\ previousResult' = result
                /\ result' = ResponseData(inflight[i].payload, v)]_vars

\* C4: on the application of the response of the most recently issued
\* request while a result is displayed, a reroute is flagged if and only if
\* the geometry representation of the new result differs from that of the
\* displayed one; with equal geometries no flag is set.
C4_RerouteIffGeometryDiffers ==
    [][\A i \in 1..MaxInflight, v \in 1..NumRoutes :
          (Applies(i, v) /\ ~Stale(i) /\ result # Null)
             => IF GeometryRepresentation(ResponseData(inflight[i].payload, v))
                     # GeometryRepresentation(result)
                THEN isRerouting'
                ELSE NoFlagSet]_vars

\* C5: the notification becomes visible exactly when a reroute is detected
\* on the response to the request of a simulated event.
C5_NotificationOnEventReroute ==
    [][/\ (~showNotification /\ showNotification')
            => \E i \in 1..Len(inflight), v \in 1..NumRoutes :
                  /\ Applies(i, v)
                  /\ inflight[i].trigger = "simulation"
                  /\ RerouteDetected(inflight[i],
                                     ResponseData(inflight[i].payload, v))
       /\ \A i \in 1..Len(inflight), v \in 1..NumRoutes :
             (/\ Applies(i, v)
              /\ inflight[i].trigger = "simulation"
              /\ RerouteDetected(inflight[i],
                                 ResponseData(inflight[i].payload, v)))
                => showNotification']_vars

\* the pair of the displayed result
DisplayedPair ==
    <<IF result # Null /\ result.start_point # Null
      THEN result.start_point.display ELSE "",
      IF result # Null /\ result.end_point # Null
      THEN result.end_point.display ELSE "">>

\* the step issues a request from this trigger
Issues(trigger) ==
    /\ issued' = issued + 1
    /\ inflight'[Len(inflight')].trigger = trigger

\* C7: when the debounce timer fires, a request is issued only if the
\* entered pair differs from the pair of the result displayed at that
\* moment.
C7_DebounceSkipsDisplayedPair ==
    [][(debounceTimer # Null /\ DebounceFire /\ Issues("debounce"))
          => <<source, destination>> # DisplayedPair]_vars

EndpointsEdited == source' # source \/ destination' # destination

\* C9: every change of source or destination, also one that leaves a field
\* empty, clears the event name, the simulated event and
\* hasSimulatedThisSession.
C9_EditClearsEvent ==
    [][EndpointsEdited
          => /\ event' = ""
             /\ simulatedEvent' = Null
             /\ ~hasSimulatedThisSession']_vars

\* C10: a change of source or destination clears previous, and the response
\* to the request the debounce timer issues for the new endpoints flags no
\* reroute and sets no change flag.
C10_EditClearsPrevious ==
    [][/\ EndpointsEdited => previousResult' = Null
       /\ \A i \in 1..MaxInflight, v \in 1..NumRoutes :
             (Applies(i, v) /\ inflight[i].trigger = "debounce")
                => NoFlagSet]_vars

\* C8: for a fixed pair of endpoints the simulation fires at most once:
\* it fires only while hasSimulatedThisSession is false and sets it, nothing
\* else sets it, and only a change of source or destination clears it.
C8_SimulationOneShot ==
    [][/\ (simTimer # Null /\ SimulationFire)
            => (~hasSimulatedThisSession /\ hasSimulatedThisSession')
       /\ (~hasSimulatedThisSession /\ hasSimulatedThisSession')
            => (simTimer # Null /\ SimulationFire)
       /\ (hasSimulatedThisSession /\ ~hasSimulatedThisSession')
            => EndpointsEdited]_vars

\* a qualifying idle window (result displayed, no active event, not loading)
\* after the simulation has fired for the endpoints: no timer is armed
C8_Witness ==
    /\ hasSimulatedThisSession
    /\ result # Null /\ event = "" /\ simulatedEvent = Null /\ ~loading
    /\ simTimer = Null

----------------------------------------------------------------------------
(* The debounce window, under SpecTimed *)

----------------------------------------------------------------------------
(* Requests and the state they are issued in *)

\* the request the step has issued
Issued == inflight'[Len(inflight')]

\* C11: an edit of source or destination invalidates the simulation timer
\* armed for the previous endpoints, so every request, whichever trigger
\* issues it, carries the source and destination entered at the moment it is
\* issued, and a simulation timer that is armed was armed for the entered
\* endpoints.
C11_RequestsCarryEnteredEndpoints ==
    /\ [](simTimer # Null
            => /\ simTimer.c.source = source
               /\ simTimer.c.destination = destination)
    /\ [][issued' = issued + 1
            => /\ Issued.payload.source = source'
               /\ Issued.payload.destination = destination']_vars

\* C12: the failure of the most recently issued request leaves current and
\* previous unchanged and sets the error text to the detail of the failure,
\* or to the generic text when there is none; it ends the loading state, so
\* a displayed route is retained and without one the session is back to no
\* result and no request awaited.
C12_FailureRetainsCurrent ==
    [][\A i \in 1..MaxInflight, d \in ErrorDetails :
          (i \in 1..Len(inflight) /\ ResolveFailure(i, d) /\ ~Stale(i))
             => /\ result' = result
                /\ previousResult' = previousResult
                /\ error' = IF d # "" THEN d
                            ELSE "Failed to get route suggestion"
                /\ ~loading']_vars

\* the request of the simulated event, issued while a route was displayed,
\* has failed: the error text is set and the route is still displayed
C12_Witness ==
    /\ simulatedEvent # Null
    /\ error # ""
    /\ result # Null
    /\ ~loading
    /\ inflight = <<>>

\* the provider recorded by the displayed result ("" when none is recorded)
RecordedProvider == IF result # Null THEN result.provider_used ELSE ""

\* C13: provider stickiness.  Every request, whichever trigger issues it,
\* carries as its hint the provider recorded by the result displayed at the
\* moment of issue, and no hint only if none is recorded.
C13_ProviderStickiness ==
    [][issued' = issued + 1
          => Issued.payload.provider = RecordedProvider]_vars

----------------------------------------------------------------------------
(* The session from the moment a route is displayed.  SpecDisplayed starts   *)
(* in the state SpecTimed is in when the response to the first request has  *)
(* just been applied: the route of (A, X) is displayed, the simulation      *)
(* timer was armed by that render.  issued counts the requests from there.  *)

DisplayedRoute == ResponseData([source |-> "A", destination |-> "X"], 1)

Displayed ==
    /\ source = "A"
    /\ destination = "X"
    /\ event = ""
    /\ loading = FALSE
    /\ result = DisplayedRoute
    /\ error = ""
    /\ isLiveEnabled = FALSE
    /\ simulatedEvent = Null
    /\ showNotification = FALSE
    /\ previousResult = DisplayedRoute
    /\ isRerouting = FALSE
    /\ etaChanged = FALSE
    /\ distanceChanged = FALSE
    /\ hasSimulatedThisSession = FALSE
    /\ debounceTimer = Null
    /\ simTimer = Timer([source |-> "A", destination |-> "X", event |-> "",
                         simulatedEvent |-> Null, result |-> DisplayedRoute,
                         previousResult |-> DisplayedRoute], SimulationMs)
    /\ pollInterval = Null
    /\ flagTimers = <<>>
    /\ inflight = <<>>
    /\ issued = 0
    /\ sinceEdit = Ticks(DebounceMs)
    /\ windowEdits = 0
    /\ decoder = NoCall

InitDisplayed == Displayed /\ timed = TRUE /\ map = NoMap

\* the user resubmits; the inputs stay as they are
NextDisplayed ==
    \/ Submit
    \/ \E i \in 1..MaxInflight, v \in 1..NumRoutes : ResolveSuccess(i, v)
    \/ \E i \in 1..MaxInflight, d \in ErrorDetails : ResolveFailure(i, d)
    \/ FlagTimerDue
    \/ SimulationDue
    \/ Tick

SpecDisplayed == InitDisplayed /\ [][NextDisplayed]_vars

\* the same session without the clock, with a user who edits the source and
\* never submits: as in Spec, an armed timer may fire at any moment
InitEdited == Displayed /\ timed = FALSE /\ map = NoMap

NextEdited ==
    \/ \E v \in Sources : SetSource(v)
    \/ \E i \in 1..MaxInflight, v \in 1..NumRoutes : ResolveSuccess(i, v)
    \/ \E i \in 1..MaxInflight, d \in ErrorDetails : ResolveFailure(i, d)
    \/ DebounceFire
    \/ \E k \in 1..MaxFlagTimers : FlagTimerFire(k)
    \/ SimulationFire

SpecEdited == InitEdited /\ [][NextEdited]_vars

\* a reset timer of flag f is pending and not yet due: an application that
\* flagged f took place less than FlagMs ago
FlaggedWithin(f) ==
    \E k \in 1..Len(flagTimers) :
        flagTimers[k].flag = f /\ flagTimers[k].rem > 0

\* an application that flagged f took place and its reset has not run
FlagPending(f) ==
    \E k \in 1..Len(flagTimers) : flagTimers[k].flag = f

\* C14: etaChanged (distanceChanged) is true from an application that
\* flags a change of the duration (distance) until FlagMs have elapsed since
\* it, also when flagged applications are less than FlagMs apart, and false
\* once FlagMs have elapsed since the last such application; the reset of
\* one flag leaves the other as it is.
C14_FlagDecay ==
    /\ FlaggedWithin("eta") => etaChanged
    /\ FlaggedWithin("distance") => distanceChanged
    /\ etaChanged => FlagPending("eta")
    /\ distanceChanged => FlagPending("distance")

----------------------------------------------------------------------------
(* What the page shows of a change *)

\* the differences the page renders next to the changed metric and in the
\* notification: it computes them from result and previousResult
DistanceDelta == previousResult.distance_km - result.distance_km

DurationDelta == previousResult.duration_minutes - result.duration_minutes

\* C15: the differences of distance and duration the page shows are the
\* value of the result displayed before minus that of the new result, so
\* while distanceChanged (etaChanged) is true the difference of the distance
\* (duration) shown is not zero.
C15_ExposedDeltas ==
    /\ distanceChanged => DistanceDelta # 0
    /\ etaChanged => DurationDelta # 0

----------------------------------------------------------------------------
(* The background poll *)

\* the step is a tick of the poll interval
Polls ==
    /\ pollInterval # Null
    /\ \E t \in BOOLEAN, n \in mockEventTypes : PollTick(t, n)

\* C16: the poll interval, of period PollMs, runs exactly while live
\* monitoring is enabled and a result is displayed: no tick occurs unless
\* both hold, and once live monitoring is disabled no tick sets an event or
\* causes a request.
C16_PollOnlyWhileLive ==
    /\ [](pollInterval # Null
            <=> (isLiveEnabled /\ result # Null))
    /\ [](pollInterval # Null => pollInterval.rem = PollMs \div TickMs)
    /\ [][Polls => (isLiveEnabled /\ result # Null)]_vars

\* a tick of the poll has set an event, and live monitoring was disabled
\* afterwards: the interval is gone
C16_Witness ==
    /\ event \in mockEventTypes
    /\ simulatedEvent = Null
    /\ ~isLiveEnabled
    /\ result # Null
    /\ pollInterval = Null

----------------------------------------------------------------------------
(* The notification *)

\* C17: a visible notification stays visible until the user dismisses it: no
\* timer and no response, failure, edit of source or destination or poll
\* tick hides it.
C17_NotificationUntilDismissed ==
    [][(showNotification /\ ~showNotification') => DismissNotification]_vars

----------------------------------------------------------------------------
(* Calls of decodePolyline.  SpecDecode runs one call on a string of at most *)
(* MaxEncodedLen characters, or on the sample string, at precision 5 or 6.   *)
(* SpecDecodeRuns adds that a call that can take a step takes it: the call   *)
(* is synchronous code that nothing interrupts.                              *)

EncodedStrings ==
    UNION {[1..n -> Alphabet] : n \in 0..MaxEncodedLen} \cup {SampleString}

Precisions == {5, 6}

InitDecode ==
    /\ Session
    /\ timed = FALSE
    /\ map = NoMap
    /\ decoder \in {Call(e, p) : e \in EncodedStrings, p \in Precisions}

\* the next step of the call in progress
Decode ==
    /\ decoder.pc \notin {"none", "return"}
    /\ decoder' = DecodeStep(decoder)
    /\ UNCHANGED <<source, destination, event, loading, result, error,
                   isLiveEnabled, simulatedEvent, showNotification,
                   previousResult, isRerouting, etaChanged, distanceChanged,
                   hasSimulatedThisSession, debounceTimer, simTimer,
                   pollInterval, flagTimers, inflight, issued, timed,
                   sinceEdit, windowEdits, map>>

NextDecode == Decode

SpecDecode == InitDecode /\ [][NextDecode]_vars

SpecDecodeRuns == SpecDecode /\ WF_vars(Decode)

\* decodePolyline(encoded, precision) run to its return
RECURSIVE Run(_)
Run(d) == IF d.pc = "return" THEN d ELSE Run(DecodeStep(d))

decodePolyline(encoded, precision) == Run(Call(encoded, precision)).points

\* the call has returned
Returned == decoder.pc = "return"

\* the positions of the characters that end a value
Terminators(encoded) == {i \in 1..Len(encoded) : encoded[i] - 63 < 32}

\* the part of the string that holds its complete coordinates: it ends with
\* the last character of the last longitude that follows a latitude
ResolvedPrefix(encoded) ==
    LET even == {i \in Terminators(encoded) :
                    Cardinality({j \in Terminators(encoded) : j <= i}) % 2 = 0}
        last == IF even = {} THEN 0
                ELSE CHOOSE i \in even : \A j \in even : j <= i
    IN  SubSeq(encoded, 1, last)

\* C18: for a string with a truncated tail (a last value whose final
\* character announces a further one, or a latitude without its longitude)
\* the call returns the coordinates that were complete before the tail, and
\* no point made of the partial tail.
C18_TruncatedTail ==
    Returned
       => decoder.points
             = decodePolyline(ResolvedPrefix(decoder.encoded),
                              decoder.precision)

\* C19: the sample string decodes, at precision 5, to three coordinates
\* whose integers are (3850000, -12020000), (4070000, -12095000) and
\* (4325200, -12645300), each divided by 10^5.
C19_SampleString ==
    (Returned /\ decoder.encoded = SampleString /\ decoder.precision = 5)
       => decoder.points
             = << <<Quotient(3850000, 100000), Quotient(-12020000, 100000)>>,
                  <<Quotient(4070000, 100000), Quotient(-12095000, 100000)>>,
                  <<Quotient(4325200, 100000), Quotient(-12645300, 100000)>> >>

\* the call on the sample string at precision 5 has returned three points
C19_Witness ==
    /\ Returned
    /\ decoder.encoded = SampleString
    /\ decoder.precision = 5
    /\ Len(decoder.points) = 3

\* C20: the call returns for every string, with a sequence of coordinates,
\* and with the empty sequence for the empty string.
C20_Total ==
    /\ <>Returned
    /\ [](Returned
            => /\ decoder.points \in Seq(Seq([num : Int, den : {10 ^ 5, 10 ^ 6}]))
               /\ \A k \in 1..Len(decoder.points) : Len(decoder.points[k]) = 2
               /\ decoder.encoded = <<>> => decoder.points = <<>>)

\* the call on the empty string has returned the empty sequence
C20_Witness ==
    /\ Returned
    /\ decoder.encoded = <<>>
    /\ decoder.points = <<>>

----------------------------------------------------------------------------
(* The request of the simulation *)

\* C21: the request issued when the simulation fires carries the name of the
\* event just made, the severity HIGH and the location of that event, taken
\* from the event passed to the request: the render whose handleSubmit
\* builds the request has no simulated event yet.
C21_SimulationRequestCarriesEvent ==
    [][Issues("simulation")
          => /\ simTimer # Null /\ simTimer.c.simulatedEvent = Null
             /\ simulatedEvent' # Null
             /\ Issued.payload.event = simulatedEvent'.event_name
             /\ Issued.payload.event \in mockEventTypes
             /\ Issued.payload.event_severity = "HIGH"
             /\ Issued.payload.event_location
                   = [lat |-> simulatedEvent'.lat, lon |-> simulatedEvent'.lon]
             /\ Issued.payload.event_location
                   \in EventLocations(simTimer.c.result)]_vars

\* the request of the simulation awaits its response
C21_Witness ==
    /\ inflight # <<>>
    /\ inflight[Len(inflight)].trigger = "simulation"
    /\ inflight[Len(inflight)].payload.event_severity = "HIGH"
    /\ simulatedEvent # Null

\* the simulation timer fires and finds no coordinate for its event
SimulationSkips ==
    /\ simTimer # Null
    /\ EventLocations(simTimer.c.result) = {}
    /\ SimulationFire

\* C23: when the simulation timer fires and no coordinate is found (no
\* usable point of the detailed geometry and no end point), the simulation
\* is skipped: no simulated event is made, no request is issued, no
\* notification is shown, and the debounce timer and the poll interval stay
\* as they are.
C23_SimulationSkipIsolated ==
    [][SimulationSkips
          => /\ simulatedEvent' = Null
             /\ UNCHANGED <<event, showNotification, inflight, issued,
                            loading, result, previousResult, error,
                            debounceTimer, pollInterval>>]_vars

\* the simulation was skipped for a result without end point while the
\* debounce timer and the poll interval are armed
C23_Witness ==
    /\ hasSimulatedThisSession
    /\ result # Null /\ result.end_point = Null
    /\ simulatedEvent = Null /\ event = ""
    /\ simTimer = Null /\ inflight = <<>>
    /\ debounceTimer # Null
    /\ pollInterval # Null

\* C24: issuing a request, from whichever trigger, leaves current and
\* previous as they are: a displayed result stays displayed while the request
\* is pending, and only a successful response replaces it.
C24_IssueKeepsCurrent ==
    [][/\ issued' = issued + 1 => UNCHANGED <<result, previousResult>>
       /\ result' # result
            => \E i \in 1..Len(inflight), v \in 1..NumRoutes :
                  /\ Applies(i, v)
                  /\ result' = ResponseData(inflight[i].payload, v)]_vars

\* a request is pending while a result is displayed
C24_Witness ==
    /\ loading
    /\ inflight # <<>>
    /\ result # Null
    /\ previousResult = result

\* C25: a request the debounce timer issues after an edit of source or
\* destination carries no simulated event: neither its name, nor the
\* severity HIGH, nor a location, also when a simulated event was active at
\* the moment of the edit.
C25_DebounceRequestCarriesNoEvent ==
    [][Issues("debounce")
          => /\ Issued.payload.event = ""
             /\ Issued.payload.event_severity = "LOW"
             /\ Issued.payload.event_location = Null]_vars

\* C26: the loading flag is true exactly while a request awaits its
\* response, so the resolution of one of two overlapping requests leaves it
\* true, and the simulation timer is never armed while a request is pending.
C26_LoadingIffOutstanding ==
    /\ loading <=> inflight # <<>>
    /\ simTimer # Null => inflight = <<>>

\* C27: each firing of the simulation that makes an event issues exactly one
\* request: setting the event name in the simulation does not make the
\* effect on the event name issue a second request for the same event.
C27_SimulationIssuesOneRequest ==
    [][(simTimer # Null /\ SimulationFire /\ simulatedEvent' # Null)
          => /\ issued' = issued + 1
             /\ Len(inflight') = Len(inflight) + 1
             /\ Issued.trigger = "simulation"]_vars

\* the simulation has fired and its request is the only one pending
C27_Witness ==
    /\ simulatedEvent # Null
    /\ hasSimulatedThisSession
    /\ event = simulatedEvent.event_name
    /\ Len(inflight) = 1
    /\ inflight[1].trigger = "simulation"

\* C28: every tick of the poll whose random trial triggers while a result
\* is displayed leads, through the effect on the event name, to a request
\* that carries the drawn name, also when a simulated event is active.
C28_PollTickIssuesRequest ==
    [][\A n \in mockEventTypes :
          (pollInterval # Null /\ result # Null /\ PollTick(TRUE, n))
             => /\ Issues("event")
                /\ Issued.payload.event = n]_vars

----------------------------------------------------------------------------
(* The session with its map.  SpecMap starts, like SpecEdited, with the     *)
(* route of (A, X) displayed; the map has drawn it.  The service answers    *)
(* with routes that carry a compact geometry, a detailed one, or both.  The *)
(* clock is left out: a timer may fire at any moment, but never before a    *)
(* timer that was set no later with no longer a delay.                      *)

InitMap ==
    /\ Displayed
    /\ timed = FALSE
    /\ map = [mounted |-> TRUE,
              previousGeometryRef |-> CurrentGeometry(DisplayedRoute),
              polylineRef |-> 1,
              oldPolylineRef |-> 0,
              isReroutingRef |-> FALSE,
              layers |-> {[id |-> 1, look |-> "normal"]},
              timers |-> <<>>,
              created |-> 1,
              transitions |-> 0]

MapTimerFire(k) ==
    /\ map.mounted
    /\ k \in 1..Len(map.timers)
    /\ \A j \in 1..(k - 1) : map.timers[j].ms > map.timers[k].ms
    /\ Update([World EXCEPT !.map = MapTimerCallback(map, k)], {})

NextMap ==
    \/ Submit
    \/ \E i \in 1..MaxInflight, v \in 1..NumVariants : ResolveSuccess(i, v)
    \/ \E i \in 1..MaxInflight, d \in ErrorDetails : ResolveFailure(i, d)
    \/ \E k \in 1..MaxFlagTimers : FlagTimerFire(k)
    \/ SimulationFire
    \/ \E k \in 1..MaxPolylines : MapTimerFire(k)

SpecMap == InitMap /\ [][NextMap]_vars

\* C22: when the simulation fires while the displayed result has a detailed
\* geometry of n >= 1 points, the event lies at the point of the geometry
\* with an index i, floor(0.3 n) <= i <= floor(0.7 n), which is a valid
\* index; the offset from the end point is used only without a detailed
\* geometry.
C22_EventOnDetailedGeometry ==
    [][(/\ simTimer # Null /\ SimulationFire
        /\ Len(result.detailed_geometry) >= 1)
          => /\ simulatedEvent' # Null
             /\ \E i \in MinIdx(Len(result.detailed_geometry))
                          ..MaxIdx(Len(result.detailed_geometry)) :
                   /\ i < Len(result.detailed_geometry)
                   /\ simulatedEvent'.lat = result.detailed_geometry[i + 1]
                   /\ simulatedEvent'.lon = result.detailed_geometry[i + 1]]_vars

\* C29: the two reroute detectors agree: whenever a result is applied, the
\* route session flags a reroute for it exactly if the map starts its
\* reroute transition for it, whether the results carry a detailed
\* geometry, a compact one, or both.
C29_RerouteDetectorsAgree ==
    [][\A i \in 1..MaxInflight, v \in 1..NumVariants :
          Applies(i, v)
            => (RerouteDetected(inflight[i],
                                ResponseData(inflight[i].payload, v))
                  <=> map'.transitions # map.transitions)]_vars

\* C30: every superseded route polyline is eventually removed from the map:
\* once all pending timers of the map have fired, the only route polyline
\* left on the map is the one of the current route, also after two reroutes
\* less than the removal delay apart.
C30_SupersededPolylinesRemoved ==
    (map.mounted /\ map.timers = <<>>)
       => \A l \in map.layers : l.id = map.polylineRef

====
